---- MODULE Spec2Model ----
(***************************************************************************)
(* Model of powergen-rs (src/src/lib.rs): a typed dataflow graph.  Nodes   *)
(* own output Links; a Link remembers the last published Atom and fans it  *)
(* out to the InputParameters subscribed to it; generate_graphs searches a *)
(* catalog of NodeTemplates for sequences whose types chain.               *)
(*                                                                         *)
(* Three specifications share the module:                                  *)
(*   Spec          the node / link / port runtime (create, drop, attach,   *)
(*                 update);                                                *)
(*   SpecGen       generate_graphs, one action per round of its loop;      *)
(*   SpecContains  the pure function contains on bounded multisets.        *)
(* A panic (failed assert_eq!, unwrap of None, panic!) ends the run: it is *)
(* recorded in `fault` and no further operation is taken.                  *)
(***************************************************************************)
EXTENDS Integers, Sequences, FiniteSets, TLC

\* ------------------------------------------------------------------ bounds
MaxNodes == 3
MaxSinks == 2
MaxPayload == 1
MaxCatalog == 3
MaxCount == 2
MaxHeld == 1
MaxWires == 2

\* ------------------------------------------------------------------ values
\* enum Atom { Entity(u8), TestUsize(usize) } and its strum discriminants
Discriminants == {"Entity", "TestUsize"}

Atom == [tag : Discriminants, v : 0..MaxPayload]

\* next.into(): the discriminant of an Atom
Discriminant(atom) == atom.tag

\* Option<T>: None is the empty sequence, Some(x) the one-element sequence
None == <<>>

Some(x) == <<x>>

\* ---------------------------------------------------------------- templates
\* Implementations of trait NodeTemplate, as (in_types, out_types, state).
\* 1 and 2 are EmitUsizeTemplate and TakeUsizeTemplate; 3 and 4 are the same
\* two shapes over the other discriminant.
EmitUsizeTemplate == [in_types |-> <<>>, out_types |-> <<"TestUsize">>, state |-> "Emit"]

TakeUsizeTemplate == [in_types |-> <<"TestUsize">>, out_types |-> <<>>, state |-> "Take"]

EmitEntityTemplate == [in_types |-> <<>>, out_types |-> <<"Entity">>, state |-> "Emit"]

TakeEntityTemplate == [in_types |-> <<"Entity">>, out_types |-> <<>>, state |-> "Take"]

\* Nodes whose CallbackFn uses what the runtime hands it: the first publishes
\* the atom it receives on its own output 0 (the &OutLinkList argument), the
\* second attaches its own input to an output of the graph.
RelayUsizeTemplate == [in_types |-> <<"TestUsize">>, out_types |-> <<"TestUsize">>, state |-> "Relay"]

SubscribeUsizeTemplate == [in_types |-> <<"TestUsize">>, out_types |-> <<>>, state |-> "Subscribe"]

Templates == <<EmitUsizeTemplate, TakeUsizeTemplate, EmitEntityTemplate, TakeEntityTemplate,
               RelayUsizeTemplate, SubscribeUsizeTemplate>>

\* The templates whose callbacks only store what they receive
StoreTemplates == {1, 2, 3, 4}

\* The templates of the graphs whose callbacks call back into the runtime
ReentryTemplates == {5, 6}

NodeIds == 1..MaxNodes

VARIABLES
    template,     \* NodeIds -> 0 (never created) or an index into Templates
    alive,        \* NodeIds -> BOOLEAN: a strong Arc to the node still exists
    in_links,     \* NodeIds -> InLinkList  (Vec<Option<Arc<RefCell<Link>>>>)
    out_links,    \* NodeIds -> OutLinkList (Vec of Link)
    received,     \* NodeIds -> TakeUsizeState.received of the node's state
    lastOp,       \* the operation taken last
    calls,        \* the reaction callbacks the last operation invoked, in order
    published,    \* <<node, idx>> -> Option<Atom>: last update that returned
    held,         \* the links of which the caller keeps a clone of the Arc
    stack,        \* the calls of Link::update in progress, outermost first
    fault         \* "none", or the panic that ended the run

rtvars == <<template, alive, in_links, out_links, received, lastOp, calls, published, held,
           stack, fault>>

\* generate_graphs: its arguments, locals and position
VARIABLES
    templates,    \* the catalog handed to generate_graphs
    search_q,     \* VecDeque<(TypeMultiset, Vec<&Arc<dyn NodeTemplate>>)>
    results,      \* Vec<Vec<&Arc<dyn NodeTemplate>>>, a template by its index
    round,        \* the loop variable i
    popped,       \* how many entries pop_front has returned
    gpc           \* "idle", "loop", "done"

genvars == <<templates, search_q, results, round, popped, gpc>>

\* contains, applied to one pair of arguments
VARIABLES
    arg_haystack, \* the first argument of contains
    arg_needle,   \* the second argument of contains
    verdict       \* None, or Some(the value contains returned)

cvars == <<arg_haystack, arg_needle, verdict>>

\* ------------------------------------------------------------------- Link
\* Link::new
Link_new(typ) == [typ |-> typ, latest_value |-> None, sinks |-> <<>>]

\* Link::get_latest
get_latest(link) == link.latest_value

\* add_sink that inserts at the front of the list
add_sink_front(link, sink) == [link EXCEPT !.sinks = <<sink>> \o @]

\* Link::add_sink
add_sink(link, sink) == [link EXCEPT !.sinks = Append(@, sink)]

\* callback_fn with the store into `received` left out
callback_fn_nostore(n, idx, atom, st) ==
    IF Discriminant(atom) = Templates[template[n]].in_types[idx]
    THEN [st EXCEPT !.calls = Append(@, [node |-> n, idx |-> idx, atom |-> atom])]
    ELSE [st EXCEPT !.calls = Append(@, [node |-> n, idx |-> idx, atom |-> atom]),
                    !.fault = "wtf"]

\* The CallbackFn of RefCell<TakeUsizeState>: store the payload of the
\* matching variant in `received`, panic!("wtf") on any other variant.
\* st = [received, calls, fault] is threaded through the fan-out.
callback_fn(n, idx, atom, st) ==
    IF Discriminant(atom) = Templates[template[n]].in_types[idx]
    THEN [st EXCEPT !.received[n] = atom.v,
                    !.calls = Append(@, [node |-> n, idx |-> idx, atom |-> atom])]
    ELSE [st EXCEPT !.calls = Append(@, [node |-> n, idx |-> idx, atom |-> atom]),
                    !.fault = "wtf"]

\* InputParameter::mark_changed: node.upgrade().unwrap() panics when the
\* node is gone; otherwise the node's CallbackRef for idx runs (its own
\* upgrade of the node succeeds, the node being alive).
mark_changed(sink, value, st) ==
    IF ~alive[sink.node]
    THEN [st EXCEPT !.fault = "unwrap_none"]
    ELSE callback_fn(sink.node, sink.idx, value, st)

\* for sink in self.sinks.iter_mut() { sink.mark_changed(next); }
RECURSIVE fan_out(_, _, _, _)
fan_out(sinks, i, next, st) ==
    IF i > Len(sinks) \/ st.fault # "none"
    THEN st
    ELSE fan_out(sinks, i + 1, next, mark_changed(sinks[i], next, st))

\* Link::update keeping a value it already caches (get_or_insert)
Link_update_keep_first(link, next, st) ==
    IF link.typ # Discriminant(next)
    THEN [link |-> link, st |-> [st EXCEPT !.fault = "assert_update_typ"]]
    ELSE [link |-> IF link.latest_value = None
                   THEN [link EXCEPT !.latest_value = Some(next)]
                   ELSE link,
          st |-> fan_out(link.sinks, 1, next, st)]

\* Link::update with the assert_eq! moved below the assignment and the loop
Link_update_late_assert(link, next, st) ==
    LET out == fan_out(link.sinks, 1, next, st)
    IN [link |-> [link EXCEPT !.latest_value = Some(next)],
        st |-> IF link.typ # Discriminant(next) /\ out.fault = "none"
               THEN [out EXCEPT !.fault = "assert_update_typ"]
               ELSE out]

\* Link::update: the result is the link and the threaded state
Link_update(link, next, st) ==
    IF link.typ # Discriminant(next)
    THEN [link |-> link, st |-> [st EXCEPT !.fault = "assert_update_typ"]]
    ELSE [link |-> [link EXCEPT !.latest_value = Some(next)],
          st |-> fan_out(link.sinks, 1, next, st)]

\* ------------------------------------------------------------------- Node
\* SimpleNode::from_template: absent input slots, fresh output links
from_template(t) ==
    [in_links |-> [i \in 1..Len(Templates[t].in_types) |-> None],
     out_links |-> [i \in 1..Len(Templates[t].out_types) |-> Link_new(Templates[t].out_types[i])]]

\* in_params / out_params: one handle per declared type, weak to the node
in_params(n) ==
    [i \in 1..Len(Templates[template[n]].in_types) |->
        [node |-> n, idx |-> i, typ |-> Templates[template[n]].in_types[i]]]

out_params(n) ==
    [i \in 1..Len(Templates[template[n]].out_types) |->
        [node |-> n, idx |-> i, typ |-> Templates[template[n]].out_types[i]]]

Created == {n \in NodeIds : template[n] # 0}

InputParameters == UNION {{in_params(n)[i] : i \in DOMAIN in_params(n)} : n \in Created}

OutputParameters == UNION {{out_params(n)[i] : i \in DOMAIN out_params(n)} : n \in Created}

\* The output links of the catalog's nodes: <<node, index>>
LinkIds == NodeIds \X UNION {DOMAIN Templates[t].out_types : t \in DOMAIN Templates}

\* attach with add_sink moved above the assert_eq!
attach_push_first(from_param, to_param, st) ==
    IF ~alive[from_param.node]
    THEN [out_links |-> out_links, st |-> st]
    ELSE [out_links |-> [out_links EXCEPT ![from_param.node][from_param.idx] =
                                             add_sink(@, to_param)],
          st |-> IF from_param.typ # to_param.typ
                 THEN [st EXCEPT !.fault = "assert_attach_typ"]
                 ELSE st]

\* attach that hands the link's cached value to the new sink at once
attach_deliver_latest(from_param, to_param, st) ==
    IF ~alive[from_param.node]
    THEN [out_links |-> out_links, st |-> st]
    ELSE IF from_param.typ # to_param.typ
    THEN [out_links |-> out_links, st |-> [st EXCEPT !.fault = "assert_attach_typ"]]
    ELSE [out_links |-> [out_links EXCEPT ![from_param.node][from_param.idx] =
                                             add_sink(@, to_param)],
          st |-> IF out_links[from_param.node][from_param.idx].latest_value = None
                 THEN st
                 ELSE mark_changed(to_param,
                          out_links[from_param.node][from_param.idx].latest_value[1], st)]

\* attach that unwraps the upgrade of from_param.node
attach_unwrap_source(from_param, to_param, st) ==
    IF ~alive[from_param.node]
    THEN [out_links |-> out_links, st |-> [st EXCEPT !.fault = "unwrap_none"]]
    ELSE IF from_param.typ # to_param.typ
    THEN [out_links |-> out_links, st |-> [st EXCEPT !.fault = "assert_attach_typ"]]
    ELSE [out_links |-> [out_links EXCEPT ![from_param.node][from_param.idx] =
                                             add_sink(@, to_param)],
          st |-> st]

\* attach without the assert_eq! on the two typ fields
attach_no_assert(from_param, to_param, st) ==
    IF ~alive[from_param.node]
    THEN [out_links |-> out_links, st |-> st]
    ELSE [out_links |-> [out_links EXCEPT ![from_param.node][from_param.idx] =
                                             add_sink(@, to_param)],
          st |-> st]

\* attach: the upgrade of from_param.node, the assert_eq! on the two typ
\* fields, then add_sink on the source's link.  st = [received, calls, fault].
attach(from_param, to_param, st) ==
    IF ~alive[from_param.node]
    THEN [out_links |-> out_links, st |-> st]
    ELSE IF from_param.typ # to_param.typ
    THEN [out_links |-> out_links, st |-> [st EXCEPT !.fault = "assert_attach_typ"]]
    ELSE [out_links |-> [out_links EXCEPT ![from_param.node][from_param.idx] =
                                             add_sink(@, to_param)],
          st |-> st]

NoOp == [op |-> "none", node |-> 0, idx |-> 0, arg |-> <<>>]

RtInit ==
    /\ template = [n \in NodeIds |-> 0]
    /\ alive = [n \in NodeIds |-> FALSE]
    /\ in_links = [n \in NodeIds |-> <<>>]
    /\ out_links = [n \in NodeIds |-> <<>>]
    /\ received = [n \in NodeIds |-> 0]
    /\ lastOp = NoOp
    /\ calls = <<>>
    /\ published = [l \in LinkIds |-> None]
    /\ held = {}
    /\ stack = <<>>
    /\ fault = "none"

\* template.create().  Node ids are names the model gives: they are handed
\* out in creation order and, nodes of one template being interchangeable
\* and a fresh node touching no other, in template order.
Create(n, t) ==
    /\ fault = "none"
    /\ template[n] = 0
    /\ \A m \in NodeIds : m < n => template[m] # 0 /\ template[m] <= t
    /\ template' = [template EXCEPT ![n] = t]
    /\ alive' = [alive EXCEPT ![n] = TRUE]
    /\ in_links' = [in_links EXCEPT ![n] = from_template(t).in_links]
    /\ out_links' = [out_links EXCEPT ![n] = from_template(t).out_links]
    /\ received' = [received EXCEPT ![n] = 0]
    /\ lastOp' = [op |-> "create", node |-> n, idx |-> 0, arg |-> <<>>]
    /\ calls' = <<>>
    /\ UNCHANGED <<published, held, fault, stack, genvars, cvars>>

\* An InputParameter or OutputParameter that keeps its node alive
param_is_strong_arc(param) == TRUE

\* InputParameter.node and OutputParameter.node are Weak<RefCell<dyn Node>>:
\* a handle, also one stored in a link's sinks, does not keep its node alive
param_is_strong(param) == FALSE

\* A CallbackRef closure captures Arc::downgrade(&node_ref): the node's own
\* callback_refs do not keep it alive
callback_ref_is_strong(n) == FALSE

\* The nodes node n holds a strong reference to: through the sinks of the
\* links it owns and through its callback_refs
strong_refs(n) ==
    {m \in NodeIds : \E i \in DOMAIN out_links[n] : \E s \in DOMAIN out_links[n][i].sinks :
          out_links[n][i].sinks[s].node = m /\ param_is_strong(out_links[n][i].sinks[s])}
        \cup {m \in {n} : callback_ref_is_strong(n)}

\* The live nodes that hold node n strongly
strong_holders(n) == {m \in NodeIds : alive[m] /\ n \in strong_refs(m)}

\* A link all of whose Arcs are in its node's out_links
link_alive_owned(l) == alive[l[1]]

\* OutLinkList = Vec<Arc<RefCell<Link>>>: a link lives while its node does
\* or while a clone of its Arc is held
link_alive(l) == alive[l[1]] \/ l \in held

\* What is left of the out_links of node n when the node is destroyed: the
\* links still held through a clone of their Arc
links_after_drop(n) ==
    IF \A i \in DOMAIN out_links[n] : <<n, i>> \notin held
    THEN <<>>
    ELSE [i \in DOMAIN out_links[n] |->
             IF <<n, i>> \in held THEN out_links[n][i] ELSE Link_new(out_links[n][i].typ)]

\* The creator drops its Arc.  The node is destroyed when no strong
\* reference is left: it, its state and the links it owns are freed, and
\* the handles to it stay behind.
Drop(n) ==
    /\ fault = "none"
    /\ alive[n]
    /\ IF strong_holders(n) = {}
       THEN /\ alive' = [alive EXCEPT ![n] = FALSE]
            /\ in_links' = [in_links EXCEPT ![n] = <<>>]
            /\ out_links' = [out_links EXCEPT ![n] = links_after_drop(n)]
            /\ received' = [received EXCEPT ![n] = 0]
            /\ published' = [l \in DOMAIN published |->
                                IF l[1] = n /\ l \notin held THEN None ELSE published[l]]
       ELSE UNCHANGED <<alive, in_links, out_links, received, published>>
    /\ lastOp' = [op |-> "drop", node |-> n, idx |-> 0, arg |-> <<>>]
    /\ calls' = <<>>
    /\ UNCHANGED <<template, held, fault, stack, genvars, cvars>>

\* attach(&from_param, &to_param) with handles taken from out_params/in_params
Attach(from_param, to_param) ==
    /\ fault = "none"
    /\ alive[from_param.node] /\ from_param.typ = to_param.typ
          => Len(out_links[from_param.node][from_param.idx].sinks) < MaxSinks
    /\ LET r == attach(from_param, to_param,
                       [received |-> received, calls |-> <<>>, fault |-> "none"])
       IN /\ out_links' = r.out_links
          /\ received' = r.st.received
          /\ calls' = r.st.calls
          /\ fault' = r.st.fault
    /\ lastOp' = [op |-> "attach", node |-> from_param.node, idx |-> from_param.idx,
                  arg |-> <<from_param, to_param>>]
    /\ UNCHANGED <<template, alive, in_links, published, held, stack, genvars, cvars>>

\* a.borrow().out_links()[idx].borrow_mut().update(next)
Update(n, idx, next) ==
    /\ fault = "none"
    /\ alive[n]
    /\ idx \in DOMAIN out_links[n]
    /\ LET r == Link_update(out_links[n][idx], next,
                            [received |-> received, calls |-> <<>>, fault |-> "none"])
       IN /\ out_links' = [out_links EXCEPT ![n][idx] = r.link]
          /\ received' = r.st.received
          /\ calls' = r.st.calls
          /\ fault' = r.st.fault
          /\ published' = IF r.st.fault = "none"
                          THEN [published EXCEPT ![<<n, idx>>] = Some(next)]
                          ELSE published
    /\ lastOp' = [op |-> "update", node |-> n, idx |-> idx, arg |-> <<next>>]
    /\ UNCHANGED <<template, alive, in_links, held, stack, genvars, cvars>>

\* let link = a.borrow().out_links()[idx].clone(): the caller keeps the Arc
Hold(n, idx) ==
    /\ fault = "none"
    /\ alive[n]
    /\ idx \in DOMAIN out_links[n]
    /\ <<n, idx>> \notin held
    /\ Cardinality(held) < MaxHeld
    /\ held' = held \cup {<<n, idx>>}
    /\ lastOp' = [op |-> "hold", node |-> n, idx |-> idx, arg |-> <<>>]
    /\ calls' = <<>>
    /\ UNCHANGED <<template, alive, in_links, out_links, received, published, fault,
                   stack, genvars, cvars>>

\* link.borrow_mut().update(next) through a held clone of the Arc, after the
\* node the link came from has been dropped
UpdateHeld(n, idx, next) ==
    /\ fault = "none"
    /\ <<n, idx>> \in held
    /\ ~alive[n]
    /\ IF link_alive(<<n, idx>>)
       THEN LET r == Link_update(out_links[n][idx], next,
                                 [received |-> received, calls |-> <<>>, fault |-> "none"])
            IN /\ out_links' = [out_links EXCEPT ![n][idx] = r.link]
               /\ received' = r.st.received
               /\ calls' = r.st.calls
               /\ fault' = r.st.fault
               /\ published' = IF r.st.fault = "none"
                               THEN [published EXCEPT ![<<n, idx>>] = Some(next)]
                               ELSE published
       ELSE /\ fault' = "dangling_link"
            /\ calls' = <<>>
            /\ UNCHANGED <<out_links, received, published>>
    /\ lastOp' = [op |-> "update", node |-> n, idx |-> idx, arg |-> <<next>>]
    /\ UNCHANGED <<template, alive, in_links, held, stack, genvars, cvars>>

Next ==
    \/ \E n \in NodeIds, t \in StoreTemplates : Create(n, t)
    \/ \E n \in NodeIds : Drop(n)
    \/ \E f \in OutputParameters, t \in InputParameters : Attach(f, t)
    \/ \E l \in LinkIds, next \in Atom : Update(l[1], l[2], next)

\* ------------------------------------------------- update, call by call
\* Link::update with callbacks that call back into the runtime.  A frame of
\* `stack` is one call of update in progress: the link it runs on (held by a
\* RefMut for the whole call), the atom, the index of the sink being
\* notified, and whether the link was reached through a Ref of its node
\* (a.borrow().out_links()[idx], or the closure's inner_node.borrow()).
Frame(l, next, via_node) == [link |-> l, next |-> next, i |-> 1, via_node |-> via_node]

TheTop == stack[Len(stack)]

LinkOf(l) == out_links[l[1]][l[2]]

\* The sink a frame is notifying
SinkOf(frame) == LinkOf(frame.link).sinks[frame.i]

\* A RefCell<Link> that never refuses a borrow
link_borrowed_never(l) == FALSE

\* RefCell<Link>: the link is mutably borrowed by an update in progress
link_borrowed(l) == \E k \in DOMAIN stack : stack[k].link = l

\* RefCell<dyn Node>: the node is borrowed by a caller that reached a link
\* through it, or by mark_changed and the CallbackRef running its callback
node_borrowed(n) ==
    \E k \in DOMAIN stack :
        \/ stack[k].via_node /\ stack[k].link[1] = n
        \/ stack[k].i \in DOMAIN LinkOf(stack[k].link).sinks /\ SinkOf(stack[k]).node = n

\* link.borrow_mut().update(next), up to the loop: the caller is the test
\* (through the node, or through a clone of the link's Arc)
Begin(n, idx, next, via_node) ==
    /\ fault = "none"
    /\ stack = <<>>
    /\ alive[n]
    /\ idx \in DOMAIN out_links[n]
    /\ IF out_links[n][idx].typ # Discriminant(next)
       THEN /\ fault' = "assert_update_typ"
            /\ UNCHANGED <<out_links, stack>>
       ELSE /\ out_links' = [out_links EXCEPT ![n][idx].latest_value = Some(next)]
            /\ stack' = <<Frame(<<n, idx>>, next, via_node)>>
            /\ fault' = "none"
    /\ lastOp' = [op |-> "begin", node |-> n, idx |-> idx, arg |-> <<next>>]
    /\ calls' = <<>>
    /\ UNCHANGED <<template, alive, in_links, received, published, held, genvars, cvars>>

\* The callback of a TakeUsizeState node
DeliverStore(sink, atom) ==
    /\ IF Discriminant(atom) = "TestUsize"
       THEN /\ received' = [received EXCEPT ![sink.node] = atom.v]
            /\ fault' = "none"
            /\ stack' = [stack EXCEPT ![Len(stack)].i = @ + 1]
       ELSE /\ fault' = "wtf"
            /\ UNCHANGED <<received, stack>>
    /\ lastOp' = [op |-> "store", node |-> sink.node, idx |-> sink.idx, arg |-> <<atom>>]
    /\ UNCHANGED out_links

\* The callback of a relay node: links[0].borrow_mut().update(atom), up to
\* the loop of the nested update
DeliverRelay(sink, atom) ==
    LET l == <<sink.node, 1>>
    IN /\ IF link_borrowed(l)
          THEN /\ fault' = "already_borrowed"
               /\ UNCHANGED <<out_links, stack>>
          ELSE IF LinkOf(l).typ # Discriminant(atom)
          THEN /\ fault' = "assert_update_typ"
               /\ UNCHANGED <<out_links, stack>>
          ELSE /\ out_links' = [out_links EXCEPT ![l[1]][l[2]].latest_value = Some(atom)]
               /\ stack' = Append(stack, Frame(l, atom, TRUE))
               /\ fault' = "none"
       /\ lastOp' = [op |-> "relay", node |-> sink.node, idx |-> sink.idx, arg |-> <<atom>>]
       /\ UNCHANGED received

\* The callback of a subscribing node: attach(from_param, its own input)
DeliverSubscribe(sink, from_param) ==
    LET to_param == in_params(sink.node)[sink.idx]
        l == <<from_param.node, from_param.idx>>
    IN /\ IF ~alive[from_param.node]
          THEN /\ fault' = "none"
               /\ stack' = [stack EXCEPT ![Len(stack)].i = @ + 1]
               /\ UNCHANGED <<out_links, received>>
          ELSE IF node_borrowed(from_param.node)
          THEN /\ fault' = "already_borrowed"
               /\ UNCHANGED <<out_links, received, stack>>
          ELSE IF from_param.typ = to_param.typ /\ link_borrowed(l)
          THEN /\ fault' = "already_borrowed"
               /\ UNCHANGED <<out_links, received, stack>>
          ELSE /\ from_param.typ = to_param.typ => Len(LinkOf(l).sinks) < MaxSinks
               /\ LET r == attach(from_param, to_param,
                                  [received |-> received, calls |-> <<>>, fault |-> "none"])
                  IN /\ out_links' = r.out_links
                     /\ received' = r.st.received
                     /\ fault' = r.st.fault
                     /\ stack' = IF r.st.fault = "none"
                                 THEN [stack EXCEPT ![Len(stack)].i = @ + 1]
                                 ELSE stack
       /\ lastOp' = [op |-> "subscribe", node |-> sink.node, idx |-> sink.idx,
                     arg |-> <<from_param, to_param>>]

\* sink.mark_changed(next) for the sink the innermost update has reached
Deliver ==
    /\ fault = "none"
    /\ stack # <<>>
    /\ TheTop.i \in DOMAIN LinkOf(TheTop.link).sinks
    /\ LET sink == SinkOf(TheTop)
           atom == TheTop.next
       IN IF ~alive[sink.node]
          THEN /\ fault' = "unwrap_none"
               /\ lastOp' = [op |-> "deliver", node |-> sink.node, idx |-> sink.idx,
                             arg |-> <<atom>>]
               /\ calls' = <<>>
               /\ UNCHANGED <<out_links, received, stack>>
          ELSE /\ calls' = <<[node |-> sink.node, idx |-> sink.idx, atom |-> atom]>>
               /\ CASE Templates[template[sink.node]].state = "Relay" ->
                           DeliverRelay(sink, atom)
                    [] Templates[template[sink.node]].state = "Subscribe" ->
                           \E from_param \in OutputParameters : DeliverSubscribe(sink, from_param)
                    [] OTHER -> DeliverStore(sink, atom)
    /\ UNCHANGED <<template, alive, in_links, published, held, genvars, cvars>>

\* The loop of the innermost update is over: the call returns, its RefMut is
\* released, and the callback that made the call returns to its caller's loop
Return ==
    /\ fault = "none"
    /\ stack # <<>>
    /\ TheTop.i \notin DOMAIN LinkOf(TheTop.link).sinks
    /\ stack' = IF Len(stack) = 1
                THEN <<>>
                ELSE [SubSeq(stack, 1, Len(stack) - 1) EXCEPT ![Len(stack) - 1].i = @ + 1]
    /\ published' = IF Len(stack) = 1
                    THEN [published EXCEPT ![TheTop.link] = Some(TheTop.next)]
                    ELSE published
    /\ lastOp' = [op |-> "return", node |-> TheTop.link[1], idx |-> TheTop.link[2],
                  arg |-> <<TheTop.next>>]
    /\ calls' = <<>>
    /\ UNCHANGED <<template, alive, in_links, out_links, received, held, fault, genvars, cvars>>

\* The runtime with callbacks that call back into it: the test creates and
\* attaches between updates, and an update runs one call at a time
RECURSIVE SumLen(_, _)
SumLen(links, i) == IF i > Len(links) THEN 0 ELSE Len(links[i].sinks) + SumLen(links, i + 1)

RECURSIVE Wires(_)
Wires(n) == IF n = 0 THEN 0 ELSE SumLen(out_links[n], 1) + Wires(n - 1)

\* The atoms the test publishes: one of each variant
ReentryAtoms == {atom \in Atom : atom.v = 0}

NextReentry ==
    \/ \E n \in NodeIds, t \in ReentryTemplates : stack = <<>> /\ Create(n, t)
    \/ \E f \in OutputParameters, t \in InputParameters :
           stack = <<>> /\ Wires(MaxNodes) < MaxWires /\ Attach(f, t)
    \/ \E l \in LinkIds, next \in ReentryAtoms, via_node \in BOOLEAN :
           Begin(l[1], l[2], next, via_node)
    \/ Deliver
    \/ Return

\* The runtime of the test's two templates with links that outlive their
\* node: the caller keeps clones of the Arcs of links, drops nodes, and
\* updates the links whose node is gone
HeldTemplates == {1, 2}

NextHeld ==
    \/ \E n \in NodeIds, t \in HeldTemplates : Create(n, t)
    \/ \E n \in NodeIds : Drop(n)
    \/ \E f \in OutputParameters, t \in InputParameters : Attach(f, t)
    \/ \E l \in LinkIds : Hold(l[1], l[2])
    \/ \E l \in LinkIds, next \in Atom : UpdateHeld(l[1], l[2], next)

\* ============================================================ synthesis
\* The templates a catalog is drawn from: the four above, a template with
\* neither inputs nor outputs, and one with one input and one output.
NullTemplate == [in_types |-> <<>>, out_types |-> <<>>, state |-> "Emit"]

IdUsizeTemplate == [in_types |-> <<"TestUsize">>, out_types |-> <<"TestUsize">>, state |-> "Take"]

CatalogTemplates == {EmitUsizeTemplate, TakeUsizeTemplate, EmitEntityTemplate,
                     TakeEntityTemplate, NullTemplate, IdUsizeTemplate}

\* for i in 1..5
Rounds == 4

\* TypeMultiset = HashMap<AtomDiscriminants, u8>: a function on the keys present
EmptyMultiset == [typ \in {} |-> 0]

\* haystack.get(typ).unwrap_or(&0)
get_or_zero(m, typ) == IF typ \in DOMAIN m THEN m[typ] ELSE 0

\* contains with >= in place of >
RECURSIVE contains_from_ge(_, _, _)
contains_from_ge(haystack, needle, todo) ==
    IF todo = {}
    THEN TRUE
    ELSE LET typ == CHOOSE t \in todo : TRUE
         IN IF needle[typ] >= get_or_zero(haystack, typ)
            THEN FALSE
            ELSE contains_from_ge(haystack, needle, todo \ {typ})

\* contains: walk the needle's entries, return false at the first entry
\* whose count exceeds the haystack's, true when the walk ends
RECURSIVE contains_from(_, _, _)
contains_from(haystack, needle, todo) ==
    IF todo = {}
    THEN TRUE
    ELSE LET typ == CHOOSE t \in todo : TRUE
         IN IF needle[typ] > get_or_zero(haystack, typ)
            THEN FALSE
            ELSE contains_from(haystack, needle, todo \ {typ})

\* contains that looks at the haystack's entries instead of the needle's
contains_by_haystack(haystack, needle) == contains_from(haystack, needle, DOMAIN haystack \cap DOMAIN needle)

contains(haystack, needle) == contains_from(haystack, needle, DOMAIN needle)

\* *counts.entry(typ).or_insert(0) += 1
count_one(counts, typ) ==
    [t \in DOMAIN counts \cup {typ} |-> get_or_zero(counts, t) + IF t = typ THEN 1 ELSE 0]

\* type_set: count the occurrences of each discriminant of a list
RECURSIVE type_set_from(_, _, _)
type_set_from(types, i, counts) ==
    IF i > Len(types)
    THEN counts
    ELSE type_set_from(types, i + 1, count_one(counts, types[i]))

type_set(types) == type_set_from(types, 1, EmptyMultiset)

\* next_types.entry(*typ).and_modify(|e| *e -= count): present keys only
sub_types(next_types, in_set) ==
    [t \in DOMAIN next_types |->
        IF t \in DOMAIN in_set THEN next_types[t] - in_set[t] ELSE next_types[t]]

\* add_types with the or_insert left out: absent keys stay absent
add_types_no_insert(next_types, out_set) ==
    [t \in DOMAIN next_types |-> next_types[t] + get_or_zero(out_set, t)]

\* next_types.entry(*typ).and_modify(|e| *e += count).or_insert(*count)
add_types(next_types, out_set) ==
    [t \in DOMAIN next_types \cup DOMAIN out_set |->
        get_or_zero(next_types, t) + get_or_zero(out_set, t)]

\* next_types.iter().all(|(_k, count)| count == &0)
all_zero(next_types) == \A t \in DOMAIN next_types : next_types[t] = 0

\* templates_by_type[k] = (type_set(in_types), template, type_set(out_types))
in_type_set(k) == type_set(templates[k].in_types)

out_type_set(k) == type_set(templates[k].out_types)

\* expand_one with the two branches swapped: balanced successors are
\* reported, the others are queued
expand_one_swapped(available_types, prev_templates, k, acc) ==
    LET next_types == add_types(sub_types(available_types, in_type_set(k)), out_type_set(k))
        next_templates == Append(prev_templates, k)
    IN IF all_zero(next_types)
       THEN [acc EXCEPT !.results = Append(@, next_templates)]
       ELSE [acc EXCEPT !.search_q = Append(@, [types |-> next_types, templates |-> next_templates])]

\* The body of the inner for loop for template k: derive the successor of
\* the popped entry and push it on the queue or on the results.
\* acc = [search_q, results].
expand_one(available_types, prev_templates, k, acc) ==
    LET next_types == add_types(sub_types(available_types, in_type_set(k)), out_type_set(k))
        next_templates == Append(prev_templates, k)
    IN IF all_zero(next_types)
       THEN [acc EXCEPT !.search_q = Append(@, [types |-> next_types, templates |-> next_templates])]
       ELSE [acc EXCEPT !.results = Append(@, next_templates)]

\* The inner for loop without the filter
RECURSIVE expand_unfiltered(_, _, _, _)
expand_unfiltered(available_types, prev_templates, k, acc) ==
    IF k > Len(templates)
    THEN acc
    ELSE expand_unfiltered(available_types, prev_templates, k + 1,
                           expand_one(available_types, prev_templates, k, acc))

\* The inner for loop: the catalog in order, filtered by contains
RECURSIVE expand(_, _, _, _)
expand(available_types, prev_templates, k, acc) ==
    IF k > Len(templates)
    THEN acc
    ELSE expand(available_types, prev_templates, k + 1,
                IF contains(available_types, in_type_set(k))
                THEN expand_one(available_types, prev_templates, k, acc)
                ELSE acc)

RECURSIVE SeqsUpTo(_, _)
SeqsUpTo(S, n) ==
    IF n = 0
    THEN {<<>>}
    ELSE LET shorter == SeqsUpTo(S, n - 1)
         IN shorter \cup {Append(q, x) : q \in shorter, x \in S}

Catalogs == SeqsUpTo(CatalogTemplates, MaxCatalog)

GenIdle ==
    /\ templates = <<>>
    /\ search_q = <<>>
    /\ results = <<>>
    /\ round = 0
    /\ popped = 0
    /\ gpc = "idle"

\* generate_graphs(&templates) is entered with a catalog
GenInit ==
    /\ templates \in Catalogs
    /\ search_q = <<>>
    /\ results = <<>>
    /\ round = 0
    /\ popped = 0
    /\ gpc = "idle"

\* search_q.push_back((TypeMultiset::new(), Vec::new())); results = Vec::new()
GenStart ==
    /\ gpc = "idle"
    /\ search_q' = <<[types |-> EmptyMultiset, templates |-> <<>>]>>
    /\ results' = <<>>
    /\ round' = 1
    /\ gpc' = "loop"
    /\ UNCHANGED <<templates, popped, rtvars, cvars>>

\* One iteration of `for i in 1..5` whose pop_front returns an entry
GenRound ==
    /\ gpc = "loop"
    /\ round <= Rounds
    /\ search_q # <<>>
    /\ LET acc == expand(Head(search_q).types, Head(search_q).templates, 1,
                         [search_q |-> Tail(search_q), results |-> results])
       IN /\ search_q' = acc.search_q
          /\ results' = acc.results
    /\ popped' = popped + 1
    /\ round' = round + 1
    /\ UNCHANGED <<templates, gpc, rtvars, cvars>>

\* An iteration that leaves the loop when pop_front returns None
GenRoundEmpty_break ==
    /\ gpc = "loop"
    /\ round <= Rounds
    /\ search_q = <<>>
    /\ gpc' = "done"
    /\ UNCHANGED <<templates, search_q, results, round, popped, rtvars, cvars>>

\* One iteration whose pop_front returns None
GenRoundEmpty ==
    /\ gpc = "loop"
    /\ round <= Rounds
    /\ search_q = <<>>
    /\ round' = round + 1
    /\ UNCHANGED <<templates, search_q, results, popped, gpc, rtvars, cvars>>

\* The loop is over: return results
GenReturn ==
    /\ gpc = "loop"
    /\ round > Rounds
    /\ gpc' = "done"
    /\ UNCHANGED <<templates, search_q, results, round, popped, rtvars, cvars>>

NextGen ==
    \/ GenStart
    \/ GenRound
    \/ GenRoundEmpty
    \/ GenReturn

\* ============================================================= contains
\* Every multiset over the discriminants with counts up to MaxCount; a key
\* may be present with count 0
TypeMultisets == UNION {[D -> 0..MaxCount] : D \in SUBSET Discriminants}

ContainsIdle ==
    /\ arg_haystack = EmptyMultiset
    /\ arg_needle = EmptyMultiset
    /\ verdict = None

ContainsInit ==
    /\ arg_haystack \in TypeMultisets
    /\ arg_needle \in TypeMultisets
    /\ verdict = None

ContainsCall ==
    /\ verdict = None
    /\ verdict' = Some(contains(arg_haystack, arg_needle))
    /\ UNCHANGED <<arg_haystack, arg_needle, rtvars, genvars>>

NextContains == ContainsCall

\* ======================================================== specifications
vars == <<rtvars, genvars, cvars>>

Init == RtInit /\ GenIdle /\ ContainsIdle

Spec == Init /\ [][Next]_vars

InitGen == GenInit /\ RtInit /\ ContainsIdle

SpecHeld == Init /\ [][NextHeld]_vars

SpecReentry == Init /\ [][NextReentry]_vars

SpecGen == InitGen /\ [][NextGen]_vars

InitContains == ContainsInit /\ RtInit /\ GenIdle

SpecContains == InitContains /\ [][NextContains]_vars

\* ================================================================ claims
\* The link the last update or attach went to
TheLink == out_links[lastOp.node][lastOp.idx]

IsTemplate(n, T) == template[n] # 0 /\ Templates[template[n]] = T

Subscribed(b, link) == \E i \in DOMAIN link.sinks : link.sinks[i] = in_params(b)[1]

\* C1: source A (EmitUsizeTemplate) and sink B (TakeUsizeTemplate), B's input
\* 0 attached to A's output 0: whenever an update(TestUsize(v)) on A's output
\* link has returned, B's `received` equals v.
C1_SinkReceivesPayload ==
    \A a \in NodeIds, b \in NodeIds :
        ( /\ lastOp.op = "update"
          /\ fault = "none"
          /\ lastOp.node = a
          /\ IsTemplate(a, EmitUsizeTemplate)
          /\ IsTemplate(b, TakeUsizeTemplate)
          /\ Subscribed(b, TheLink) )
        => received[b] = lastOp.arg[1].v

C1_Witness ==
    \E a \in NodeIds, b \in NodeIds :
        /\ lastOp.op = "update"
        /\ fault = "none"
        /\ lastOp.node = a
        /\ IsTemplate(a, EmitUsizeTemplate)
        /\ IsTemplate(b, TakeUsizeTemplate)
        /\ Subscribed(b, TheLink)
        /\ lastOp.arg[1].v = 1
        /\ received[b] = 1

\* C2: for the catalog [EmitUsizeTemplate, TakeUsizeTemplate] the list that
\* generate_graphs returns holds a sequence equal to [A, B].
C2_ReturnsEmitThenTake ==
    (gpc = "done" /\ templates = <<EmitUsizeTemplate, TakeUsizeTemplate>>)
        => \E r \in DOMAIN results : results[r] = <<1, 2>>

\* C3: for a catalog of one source-only and one sink-only Usize template
\* generate_graphs returns exactly one sequence.
C3_ExactlyOneCandidate ==
    ( /\ gpc = "done"
      /\ templates \in {<<EmitUsizeTemplate, TakeUsizeTemplate>>,
                        <<TakeUsizeTemplate, EmitUsizeTemplate>>} )
        => Len(results) = 1

C3_Witness ==
    /\ gpc = "done"
    /\ templates = <<EmitUsizeTemplate, TakeUsizeTemplate>>
    /\ results = << <<1>> >>

\* C4: an attach whose two discriminants differ changes the sink count of
\* no link, and with the source node alive it ends in the failed assertion.
C4_MismatchedAttachKeepsSinks ==
    [][ (lastOp'.op = "attach" /\ lastOp'.arg[1].typ # lastOp'.arg[2].typ)
        => /\ \A n \in NodeIds :
                /\ DOMAIN out_links'[n] = DOMAIN out_links[n]
                /\ \A i \in DOMAIN out_links[n] :
                      Len(out_links'[n][i].sinks) = Len(out_links[n][i].sinks)
           /\ alive[lastOp'.node] => fault' = "assert_attach_typ" ]_vars

C4_Witness ==
    /\ lastOp.op = "attach"
    /\ lastOp.arg[1].typ # lastOp.arg[2].typ
    /\ fault = "assert_attach_typ"
    /\ Len(TheLink.sinks) = 1

\* The callbacks one update(atom) owes the sinks, in subscription order
Notified(sinks, atom) ==
    [i \in 1..Len(sinks) |-> [node |-> sinks[i].node, idx |-> sinks[i].idx, atom |-> atom]]

\* C5: an update(v) of the link's discriminant on a link with k subscribed
\* ports invokes exactly k callbacks, each with v, in subscription order.
C5_UpdateNotifiesEverySink ==
    (lastOp.op = "update" /\ TheLink.typ = Discriminant(lastOp.arg[1]))
        => calls = Notified(TheLink.sinks, lastOp.arg[1])

LiveSink(sink) == alive[sink.node]

\* C6: an update on a link with a sink whose node has been destroyed does
\* not fault, and notifies the sinks whose nodes are alive.
C6_DeadSinkIsSkipped ==
    ( /\ lastOp.op = "update"
      /\ TheLink.typ = Discriminant(lastOp.arg[1])
      /\ \E i \in DOMAIN TheLink.sinks : ~LiveSink(TheLink.sinks[i]) )
        => /\ fault = "none"
           /\ calls = Notified(SelectSeq(TheLink.sinks, LiveSink), lastOp.arg[1])

\* C7: while every update has returned, latest() of every link is absent
\* before the link's first update and the value of its last update after.
C7_LatestIsLastUpdate ==
    fault = "none"
        => \A l \in LinkIds :
              (alive[l[1]] /\ l[2] \in DOMAIN out_links[l[1]])
                 => get_latest(out_links[l[1]][l[2]]) = published[l]

C7_Witness ==
    \E l \in LinkIds :
        /\ fault = "none"
        /\ alive[l[1]]
        /\ l[2] \in DOMAIN out_links[l[1]]
        /\ lastOp.op = "update"
        /\ lastOp.node = l[1]
        /\ lastOp.idx = l[2]
        /\ lastOp.arg[1].v = 1
        /\ out_links[l[1]][l[2]].sinks # <<>>
        /\ get_latest(out_links[l[1]][l[2]]) = Some(lastOp.arg[1])

\* C8: an attach invokes no callback and changes no node's state, also when
\* the link already caches a value; the update that follows the attach on
\* that link invokes the new port's callback.
C8_AttachInvokesNoCallback ==
    [][ /\ lastOp'.op = "attach" => (calls' = <<>> /\ received' = received)
        /\ ( /\ lastOp.op = "attach"
             /\ alive[lastOp.node]
             /\ lastOp'.op = "update"
             /\ lastOp'.node = lastOp.node
             /\ lastOp'.idx = lastOp.idx
             /\ fault' = "none" )
           => /\ calls' # <<>>
              /\ calls'[Len(calls')] = [node |-> lastOp.arg[2].node,
                                        idx |-> lastOp.arg[2].idx,
                                        atom |-> lastOp'.arg[1]] ]_vars

C8_Witness ==
    /\ lastOp.op = "attach"
    /\ fault = "none"
    /\ alive[lastOp.node]
    /\ alive[lastOp.arg[2].node]
    /\ TheLink.sinks # <<>>
    /\ TheLink.sinks[Len(TheLink.sinks)] = lastOp.arg[2]
    /\ TheLink.latest_value # None
    /\ received[lastOp.arg[2].node] # TheLink.latest_value[1].v

\* What the claim's sentence says of one haystack and needle
CountIn(m, typ) == IF typ \in DOMAIN m THEN m[typ] ELSE 0

Single(typ, count) == [t \in {typ} |-> count]

\* C9: contains(haystack, needle) is true exactly when every discriminant
\* of needle has a count in haystack (absent as zero) at least needle's;
\* with the five cases the specification lists.
C9_ContainsIsCountwiseGe ==
    verdict # None
        => /\ verdict[1] = (\A typ \in DOMAIN arg_needle :
                               CountIn(arg_haystack, typ) >= arg_needle[typ])
           /\ arg_haystack = arg_needle => verdict[1]
           /\ arg_needle = EmptyMultiset => verdict[1]
           /\ \A x \in Discriminants :
                /\ (arg_haystack = EmptyMultiset /\ arg_needle = Single(x, 1)) => ~verdict[1]
                /\ (arg_haystack = Single(x, 1) /\ arg_needle = Single(x, 2)) => ~verdict[1]
                /\ (arg_haystack = Single(x, 2) /\ arg_needle = Single(x, 1)) => verdict[1]

C9_Witness ==
    /\ verdict = Some(FALSE)
    /\ arg_haystack = Single("Entity", 1)
    /\ arg_needle = Single("Entity", 2)

\* C10: an update whose value has another discriminant than the link ends
\* in the failed assertion, leaves the link (its cached value included) as
\* it was and invokes no callback.
C10_MismatchedUpdateAborts ==
    [][ ( /\ lastOp'.op = "update"
          /\ out_links[lastOp'.node][lastOp'.idx].typ # Discriminant(lastOp'.arg[1]) )
        => /\ fault' = "assert_update_typ"
           /\ out_links' = out_links
           /\ calls' = <<>>
           /\ received' = received ]_vars

C10_Witness ==
    /\ lastOp.op = "update"
    /\ fault = "assert_update_typ"
    /\ TheLink.typ # Discriminant(lastOp.arg[1])
    /\ TheLink.latest_value # None
    /\ TheLink.sinks # <<>>

\* C11: an attach whose output port's node has been destroyed does not fault
\* and changes no link; an attach with the node alive and equal
\* discriminants appends the input port to the sink list of that output's
\* link.
C11_AttachResolvesSource ==
    [][ lastOp'.op = "attach"
        => /\ ~alive[lastOp'.node] => (fault' = "none" /\ out_links' = out_links)
           /\ (alive[lastOp'.node] /\ lastOp'.arg[1].typ = lastOp'.arg[2].typ)
                 => /\ fault' = "none"
                    /\ out_links'[lastOp'.node][lastOp'.idx].sinks =
                          Append(out_links[lastOp'.node][lastOp'.idx].sinks, lastOp'.arg[2]) ]_vars

C11_Witness ==
    /\ lastOp.op = "attach"
    /\ ~alive[lastOp.node]
    /\ lastOp.arg[1].typ = lastOp.arg[2].typ
    /\ alive[lastOp.arg[2].node]
    /\ fault = "none"
    /\ \E n \in NodeIds : alive[n] /\ out_links[n] # <<>>

\* C17: a successful attach appends the given input port, and nothing else,
\* at the end of the sink list of the source's link at the output port's
\* index; that link's cached value, every other link and the input slots of
\* all nodes are as before, and every input slot stays absent.
C17_AttachFrame ==
    [][ ( /\ lastOp'.op = "attach"
          /\ alive[lastOp'.node]
          /\ lastOp'.arg[1].typ = lastOp'.arg[2].typ )
        => /\ out_links'[lastOp'.node][lastOp'.idx] =
                 [out_links[lastOp'.node][lastOp'.idx] EXCEPT
                     !.sinks = Append(@, lastOp'.arg[2])]
           /\ \A n \in NodeIds :
                /\ DOMAIN out_links'[n] = DOMAIN out_links[n]
                /\ \A i \in DOMAIN out_links[n] :
                      <<n, i>> # <<lastOp'.node, lastOp'.idx>>
                         => out_links'[n][i] = out_links[n][i]
           /\ in_links' = in_links
           /\ \A n \in NodeIds : \A i \in DOMAIN in_links'[n] : in_links'[n][i] = None ]_vars

C17_Witness ==
    /\ lastOp.op = "attach"
    /\ fault = "none"
    /\ alive[lastOp.node]
    /\ Len(TheLink.sinks) = 2
    /\ TheLink.sinks[1] # TheLink.sinks[2]
    /\ TheLink.sinks[2] = lastOp.arg[2]
    /\ TheLink.latest_value # None
    /\ in_links[lastOp.arg[2].node] = <<None>>

\* C19: every value a callback has been handed has the discriminant the
\* port's template declares at that index: every sink stored in a link has
\* the link's discriminant and the one its node's template declares, and no
\* callback meets a variant it does not expect.
C19_DeliveredTypeIsDeclared ==
    /\ \A c \in DOMAIN calls :
          Discriminant(calls[c].atom) = Templates[template[calls[c].node]].in_types[calls[c].idx]
    /\ \A n \in NodeIds : \A i \in DOMAIN out_links[n] : \A s \in DOMAIN out_links[n][i].sinks :
          /\ out_links[n][i].sinks[s].typ = out_links[n][i].typ
          /\ out_links[n][i].sinks[s].typ =
                Templates[template[out_links[n][i].sinks[s].node]].in_types[out_links[n][i].sinks[s].idx]
    /\ fault # "wtf"

C19_Witness ==
    /\ lastOp.op = "update"
    /\ fault = "none"
    /\ Len(calls) = 2
    /\ calls[1].node # calls[2].node
    /\ Discriminant(calls[1].atom) = "Entity"

\* The nodes reachable from node n along strong references, n steps deep
RECURSIVE StrongReach(_, _)
StrongReach(S, k) ==
    IF k = 0
    THEN S
    ELSE StrongReach(S \cup UNION {strong_refs(m) : m \in S}, k - 1)

Need(k) ==
    [d \in Discriminants |->
        Cardinality({i \in DOMAIN templates[k].in_types : templates[k].in_types[i] = d})]

Give(k) ==
    [d \in Discriminants |->
        Cardinality({i \in DOMAIN templates[k].out_types : templates[k].out_types[i] = d})]

\* The values produced and not yet consumed by the first n templates of path
RECURSIVE Leftover(_, _)
Leftover(path, n) ==
    IF n = 0
    THEN [d \in Discriminants |-> 0]
    ELSE [d \in Discriminants |->
             Leftover(path, n - 1)[d] - Need(path[n])[d] + Give(path[n])[d]]

\* The paths generate_graphs holds: on the results and on the work queue
Paths == {results[r] : r \in DOMAIN results} \cup {search_q[q].templates : q \in DOMAIN search_q}

\* C13: in every returned sequence and every path on the work queue, what
\* each template requires is contained in what the templates before it left
\* over; no count of an available multiset is below zero.
C13_InputsWereProduced ==
    /\ \A path \in Paths : \A n \in DOMAIN path : \A d \in Discriminants :
          /\ Need(path[n])[d] <= Leftover(path, n - 1)[d]
          /\ Leftover(path, n)[d] >= 0
    /\ \A q \in DOMAIN search_q : \A t \in DOMAIN search_q[q].types :
          search_q[q].types[t] >= 0

C13_Witness ==
    /\ gpc = "done"
    /\ \E r \in DOMAIN results : Len(results[r]) = 3
    /\ search_q # <<>>
    /\ \E k \in DOMAIN templates : templates[k].in_types # <<>>

C15_EveryRoundDequeues ==
    gpc = "done" => (round = Rounds + 1 /\ popped = Rounds)

\* C15 as amended: generate_graphs runs 4 rounds for every catalog; a round
\* takes one entry off the work queue when the queue is not empty and none
\* when it is; then the function returns, the queue empty or not.
C15_RoundDequeuesAtMostOne ==
    [][ /\ gpc' = "done" => round' = Rounds + 1
        /\ (gpc = "loop" /\ round' # round)
              => /\ round <= Rounds
                 /\ round' = round + 1
                 /\ popped' = popped + (IF search_q = <<>> THEN 0 ELSE 1)
                 /\ search_q # <<>> => Len(search_q') >= Len(search_q) - 1
                 /\ search_q = <<>> => (search_q' = <<>> /\ results' = results)
        /\ (gpc = "loop" /\ round = Rounds + 1) => gpc' = "done" ]_vars

C15_Witness ==
    /\ gpc = "done"
    /\ round = Rounds + 1
    /\ popped = 1
    /\ templates # <<>>

C12_OrphanLinkUpdates ==
    ( /\ lastOp.op = "update"
      /\ ~alive[lastOp.node]
      /\ TheLink.typ = Discriminant(lastOp.arg[1])
      /\ \A i \in DOMAIN TheLink.sinks : LiveSink(TheLink.sinks[i]) )
        => /\ fault = "none"
           /\ calls = Notified(TheLink.sinks, lastOp.arg[1])
           /\ get_latest(TheLink) = Some(lastOp.arg[1])
           /\ \A i \in DOMAIN TheLink.sinks :
                  received[TheLink.sinks[i].node] = lastOp.arg[1].v

C12_Witness ==
    /\ lastOp.op = "update"
    /\ ~alive[lastOp.node]
    /\ fault = "none"
    /\ Len(TheLink.sinks) >= 1
    /\ \A i \in DOMAIN TheLink.sinks : LiveSink(TheLink.sinks[i])
    /\ lastOp.arg[1].v = 1
    /\ received[TheLink.sinks[1].node] = 1

\* The links on which an update is in progress
Busy == {stack[k].link : k \in DOMAIN stack}

\* The callback about to run calls update on, or attaches a sink to, a link
\* on which an update is in progress
Reenters ==
    /\ fault = "none"
    /\ stack # <<>>
    /\ TheTop.i \in DOMAIN LinkOf(TheTop.link).sinks
    /\ alive[SinkOf(TheTop).node]
    /\ \/ /\ Templates[template[SinkOf(TheTop).node]].state = "Relay"
          /\ <<SinkOf(TheTop).node, 1>> \in Busy
       \/ /\ Templates[template[SinkOf(TheTop).node]].state = "Subscribe"
          /\ lastOp'.op = "subscribe"
          /\ alive[lastOp'.arg[1].node]
          /\ <<lastOp'.arg[1].node, lastOp'.arg[1].idx>> \in Busy

\* C20: in every step, a callback that calls update on, or attaches a sink
\* to, a link whose update is in progress faults with a borrow conflict and
\* leaves the calls in progress as they were; no link has two updates in
\* progress, so the nesting is at most the number of links; and the sink
\* list and the cached value of every link with an update in progress are
\* left as they are.
C20_FanOutIsExclusive ==
    [][ /\ Reenters => fault' = "already_borrowed" /\ stack' = stack
        /\ \A j, k \in DOMAIN stack' : j # k => stack'[j].link # stack'[k].link
        /\ Len(stack') <= Cardinality(LinkIds)
        /\ \A l \in Busy : LinkOf(l)' = LinkOf(l) ]_vars

\* A relay two links down a wiring cycle has tried to update the link the
\* outermost update runs on
C20_Witness ==
    /\ fault = "already_borrowed"
    /\ Len(stack) = 2
    /\ lastOp.op = "relay"
    /\ <<lastOp.node, 1>> = stack[1].link
    /\ stack[1].link # stack[2].link
====
